---- MODULE Spec2Model ----
(***************************************************************************)
(* Model of geolistic (src/lib/index.js): one run of addFileToElastic,     *)
(* the buffered indexing pipeline                                          *)
(*     fs read stream -> csv parser -> transformer {parallel: 1} -> bulk   *)
(* together with the store client it commits to.                           *)
(***************************************************************************)
EXTENDS Integers, Sequences, FiniteSets, TLC

(***************************************************************************)
(* Bounds of the model.                                                    *)
(***************************************************************************)
MaxLines == 3          \* longest source file, in lines
MaxBufferRecords == 2  \* largest bufferRecords option tried
MaxFilters == 2        \* longest classFilters list tried
MaxQueue == 1          \* records the parser may hold ahead of the transformer
MaxPathLen == 3        \* longest elasticPath argument tried, in characters
MaxCountries == 5      \* longest countries list given to the downloader
MaxParallel == 3       \* largest parallelDownloads option tried
MaxAddCountries == 2   \* longest countries list given to the command line tool
MaxAddLines == 2       \* longest source file the command line tool reads, in lines
MaxRefLines == 3       \* longest country reference file, in lines
MaxConfigKeys == 2     \* most keys of an object given to config

(***************************************************************************)
(* Program constants.                                                      *)
(***************************************************************************)
DefaultBufferRecords == 1000
DefaultParallelDownloads == 2

FeatureClasses == {"A", "P"}

\* a parsed line: the columns of geonameLocationMapper that the pipeline
\* reads individually (geonameId, column 0, and featureClass, column 6)
Record(id, fc) == [geonameId |-> id, featureClass |-> fc]

RECURSIVE SeqsUpTo(_, _)
SeqsUpTo(S, n) ==
    IF n = 0 THEN {<<>>}
    ELSE LET shorter == SeqsUpTo(S, n - 1)
         IN  shorter \cup {Append(s, x) : s \in {t \in shorter : Len(t) = n - 1}, x \in S}

\* source files: line i carries geonameId i and any feature class
Files == {[i \in 1..Len(cs) |-> Record(i, cs[i])] : cs \in SeqsUpTo(FeatureClasses, MaxLines)}

\* the classFilters option: absent, or a list (possibly empty) of classes
ClassFilterOptions ==
    {[present |-> FALSE, list |-> <<>>]} \cup
    {[present |-> TRUE, list |-> l] : l \in SeqsUpTo(FeatureClasses, MaxFilters)}

\* the bufferRecords option: 0 stands for absent (or any falsy value)
BufferRecordsOptions == 0..MaxBufferRecords

\* country codes tried: the test sentinel, an existing country, a country
\* without datafile, and a malformed code
CountryCodes == {<<"0", "0">>, <<"n", "u">>, <<"0", "1">>, <<"y", "e", "s">>, <<"e", "s">>}

\* the countryCode arguments tried, with what typeof gives for them: the
\* strings above and the array ['n', 'u'], whose length is 2 as well
CountryCodeArgs ==
    {[value |-> c, type |-> "string"] : c \in CountryCodes} \cup
    {[value |-> <<"n", "u">>, type |-> "object"]}

\* what the store may answer to a bulk call: no error, or an error object
\* described by whether it has a message and which phrases the message holds
NoErr == [isErr |-> FALSE, hasMessage |-> FALSE, isIndex |-> FALSE, isType |-> FALSE]
StoreErrors ==
    {[isErr |-> TRUE, hasMessage |-> FALSE, isIndex |-> FALSE, isType |-> FALSE]} \cup
    {[isErr |-> TRUE, hasMessage |-> TRUE, isIndex |-> i, isType |-> t] : i, t \in BOOLEAN}
StoreAnswers == {NoErr} \cup StoreErrors

VARIABLES
    local,            \* module configuration: client, dataPath, elasticIndex, elasticType
    configCall,       \* the last call of a configuration setter and its outcome
    countryCode,      \* argument of the call
    countryCodeType,  \* typeof countryCode
    options,          \* argument of the call: bufferRecords, classFilters, bufferAdded
    file,             \* lines of the datafile NU.txt
    pc,               \* position of the run
    testMode,
    client,           \* the run's client: "null", "configured" or "stub"
    bufferRecords,    \* the run's threshold
    inputPath,        \* the run's datafile: <<directory, file name>>
    recordsProcessed,
    recordsAdded,
    output,           \* the commit buffer
    inputState,       \* the fs read stream: "closed", "open", "ended", "failed"
    parsed,           \* lines the parser has produced so far
    queue,            \* parsed records waiting for the transformer
    bulkCalls,        \* store: every batch received by client.bulk, in order
    outstanding,      \* store: batches received and not yet answered
    answers,          \* store: the answers given, in order
    hookCalls,        \* values passed to the bufferAdded hook, in order
    cbCalls,          \* invocations of the callback, in order
    thrown            \* exceptions that left the pipeline uncaught

\* downloadGeoNameCountryFiles: its arguments, its local variables, the
\* transfers it has started and the calls it has made
VARIABLES
    countries,        \* argument: the list of country codes
    dlOptions,        \* argument: parallelDownloads, preDownload, postDownload
    dlPc,             \* position of the call
    downloadsLeft,
    downloadQueue,
    filesProcessed,
    hasErrors,
    transfers,        \* every download started, in order: url, wave, status
    preCalls,         \* lists passed to the preDownload hook, in order
    postCalls,        \* lists passed to the postDownload hook, in order
    dlCbCalls         \* invocations of the callback, in order

\* the command line tool's _add(countries): its argument, its local variables
\* and what it has written and done
VARIABLES
    addCountries,     \* argument: the list of country codes, each with its typeof
    addPc,            \* position of _add: "idle", "running", "failed", "finished"
    addIndex,         \* index of the current addCountry call, counted from 1
    allProcessed,
    allAdded,
    db,               \* the store connection: "none", "open", "closed"
    addHandled,       \* invocations of the run's callback that have been delivered
    addRuns,          \* the runs left behind: country, result and commits of each
    addLog            \* lines written to the console, in order

orchestrator == <<addCountries, addPc, addIndex, allProcessed, allAdded, db, addHandled,
                  addRuns, addLog>>

\* getGeoNameCountries and getCountries: the arguments, the reference file
\* the server sends, the local variables and the calls made
VARIABLES
    gnArgs,           \* the method called and the allColoumns option
    refFile,          \* lines of countryInfo.txt as they arrive
    gnPc,             \* position of the call
    gnRead,           \* lines the parser has handed to the transformer
    gnCountries,      \* the array collected
    gnCbCalls,        \* invocations of the callback of getGeoNameCountries
    gcCbCalls,        \* invocations of the callback of getCountries
    gnThrown          \* error events and exceptions nobody handled

lister == <<gnArgs, refFile, gnPc, gnRead, gnCountries, gnCbCalls, gcCbCalls, gnThrown>>

downloader == <<countries, dlOptions, dlPc, downloadsLeft, downloadQueue, filesProcessed,
                hasErrors, transfers, preCalls, postCalls, dlCbCalls>>

vars == <<local, configCall, countryCode, countryCodeType, options, file, pc, testMode, client, bufferRecords,
          inputPath, recordsProcessed, recordsAdded, output, inputState, parsed, queue,
          bulkCalls, outstanding, answers, hookCalls, cbCalls, thrown, downloader, lister,
          orchestrator>>

inputs == <<local, configCall, countryCode, countryCodeType, options, file>>
runLocals == <<testMode, client, bufferRecords, inputPath>>
counters == <<recordsProcessed, recordsAdded>>
stream == <<inputState, parsed, queue>>
store == <<bulkCalls, outstanding, answers>>

(***************************************************************************)
(* Pure helpers of addFileToElastic.                                       *)
(***************************************************************************)

\* String.prototype.toLocaleUpperCase on the characters used here; the
\* upper case of the sharp s, written "sz" here, is the two characters SS
UpperChar(c) ==
    CASE c = "n" -> <<"N">>
      [] c = "u" -> <<"U">>
      [] c = "y" -> <<"Y">>
      [] c = "e" -> <<"E">>
      [] c = "s" -> <<"S">>
      [] c = "sz" -> <<"S", "S">>
      [] OTHER -> <<c>>

\* variant: the code is used as it was given
NotUpperCased(s) == s

RECURSIVE ToLocaleUpperCase(_)
ToLocaleUpperCase(s) ==
    IF Len(s) = 0 THEN <<>> ELSE UpperChar(s[1]) \o ToLocaleUpperCase(Tail(s))

\* the datafiles on disk: NU.txt, in the data directory and among the fixtures
FileExists(path) == path[2] = <<"N", "U">>

\* variant: the typeof test is missing
InvalidCountryCodeNoTypeof(code, type) == Len(code) = 0 \/ Len(code) # 2

\* if (!countryCode || typeof countryCode !== 'string' || countryCode.length !== 2)
InvalidCountryCode(code, type) == Len(code) = 0 \/ type # "string" \/ Len(code) # 2

\* bufferRecords = optionsOrCb.bufferRecords || 1000
BufferRecordsOption(opts) ==
    IF opts.bufferRecords # 0 THEN opts.bufferRecords ELSE DefaultBufferRecords

\* variant: the threshold is left in records although each record takes two slots
UndoubledThreshold(n) == n

\* variant: the threshold is doubled twice
QuadrupledThreshold(n) == n * 4

\* bufferRecords = bufferRecords * 2
DoubledThreshold(n) == n * 2

\* variant: the test for an empty filter list is missing
IsFilteredNoLengthCheck(record, filters) ==
    /\ filters.present
    /\ ~ \E i \in 1..Len(filters.list) : record.featureClass = filters.list[i]

\* variant: every pass of the loop overwrites isFiltered, the last value decides
IsFilteredLastWins(record, filters) ==
    /\ filters.present
    /\ Len(filters.list) # 0
    /\ record.featureClass # filters.list[Len(filters.list)]

\* the class filter: TRUE when the record is to be skipped
IsFiltered(record, filters) ==
    /\ filters.present
    /\ Len(filters.list) # 0
    /\ ~ \E i \in 1..Len(filters.list) : record.featureClass = filters.list[i]

\* variant: the directive's _id is read from a column that does not exist
DirectiveNoId(record) ==
    [index |-> [_index |-> local.elasticIndex,
                _type  |-> local.elasticType,
                _id    |-> 0]]

\* the index directive pushed for a record
Directive(record) ==
    [index |-> [_index |-> local.elasticIndex,
                _type  |-> local.elasticType,
                _id    |-> record.geonameId]]

\* the document body pushed for a record
LineOutput(record) ==
    [geonameId |-> record.geonameId, featureClass |-> record.featureClass]

\* values handed to the callback
\* names: the values the error's message is built from
NullErr == [kind |-> "null", isIndex |-> FALSE, isType |-> FALSE, names |-> <<>>]
NoResult == [defined |-> FALSE, processed |-> 0, added |-> 0]
CbError(kind, isIndex, isType) ==
    [err |-> [kind |-> kind, isIndex |-> isIndex, isType |-> isType, names |-> <<>>],
     result |-> NoResult]
CbErrorNaming(kind, names) ==
    [err |-> [kind |-> kind, isIndex |-> FALSE, isType |-> FALSE, names |-> names],
     result |-> NoResult]
CbSuccess(rp, ra) ==
    [err |-> NullErr, result |-> [defined |-> TRUE, processed |-> rp, added |-> ra]]

\* the error branch of the bulk callback: building the message reads the
\* identifiers elasicIndex / elasicType, which are declared nowhere, so the
\* branch throws a ReferenceError as soon as either phrase was found
ClassifyThrows(err) == err.hasMessage /\ (err.isIndex \/ err.isType)

\* the error handed to cb when the classification does not throw
ClassifiedError(err) == CbError("StoreError", FALSE, FALSE)

\* variant: the transformer does not wait for the callback of a record that
\* is committing
TransformerReadyParallel == pc \in {"streaming", "committing"}

\* {parallel: 1}: the transformer takes the next record only when the
\* callback of the previous one has been called
TransformerReady == pc = "streaming"

\* variant: the hook gets recordsAdded
BulkCallbackAddedToHook(err, next, out, rp, ra) ==
    /\ hookCalls' = IF options.bufferAdded THEN Append(hookCalls, ra) ELSE hookCalls
    /\ IF err.isErr
       THEN /\ output' = out
            /\ IF ClassifyThrows(err)
               THEN /\ thrown' = Append(thrown, "ReferenceError")
                    /\ pc' = "crashed"
                    /\ UNCHANGED cbCalls
               ELSE /\ cbCalls' = Append(cbCalls, ClassifiedError(err))
                    /\ pc' = "halted"
                    /\ UNCHANGED thrown
       ELSE /\ output' = <<>>
            /\ UNCHANGED thrown
            /\ IF next = "transformer"
               THEN /\ pc' = "streaming"
                    /\ UNCHANGED cbCalls
               ELSE /\ cbCalls' = Append(cbCalls, CbSuccess(rp, ra))
                    /\ pc' = "done"

\* variant: after a failed commit the error is reported and the continuation
\* is called all the same (skip and continue)
BulkCallbackContinueOnError(err, next, out, rp, ra) ==
    /\ hookCalls' = IF options.bufferAdded THEN Append(hookCalls, rp) ELSE hookCalls
    /\ output' = <<>>
    /\ UNCHANGED thrown
    /\ LET reported == IF err.isErr THEN Append(cbCalls, ClassifiedError(err)) ELSE cbCalls
       IN  IF next = "transformer"
           THEN /\ pc' = "streaming"
                /\ cbCalls' = reported
           ELSE /\ cbCalls' = Append(reported, CbSuccess(rp, ra))
                /\ pc' = "done"

\* variant: the buffer is not emptied after a commit
BulkCallbackKeepsBuffer(err, next, out, rp, ra) ==
    /\ hookCalls' = IF options.bufferAdded THEN Append(hookCalls, rp) ELSE hookCalls
    /\ IF err.isErr
       THEN /\ output' = out
            /\ IF ClassifyThrows(err)
               THEN /\ thrown' = Append(thrown, "ReferenceError")
                    /\ pc' = "crashed"
                    /\ UNCHANGED cbCalls
               ELSE /\ cbCalls' = Append(cbCalls, ClassifiedError(err))
                    /\ pc' = "halted"
                    /\ UNCHANGED thrown
       ELSE /\ output' = out
            /\ UNCHANGED thrown
            /\ IF next = "transformer"
               THEN /\ pc' = "streaming"
                    /\ UNCHANGED cbCalls
               ELSE /\ cbCalls' = Append(cbCalls, CbSuccess(rp, ra))
                    /\ pc' = "done"

(***************************************************************************)
(* The callback given to client.bulk by helperAddBuffer, run with the      *)
(* store's answer err for a batch; next is the continuation it was given.  *)
(***************************************************************************)
BulkCallback(err, next, out, rp, ra) ==
    /\ hookCalls' = IF options.bufferAdded THEN Append(hookCalls, rp) ELSE hookCalls
    /\ IF err.isErr
       THEN /\ output' = out
            /\ IF ClassifyThrows(err)
               THEN /\ thrown' = Append(thrown, "ReferenceError")
                    /\ pc' = "crashed"
                    /\ UNCHANGED cbCalls
               ELSE /\ cbCalls' = Append(cbCalls, ClassifiedError(err))
                    /\ pc' = "halted"
                    /\ UNCHANGED thrown
       ELSE /\ output' = <<>>
            /\ UNCHANGED thrown
            /\ IF next = "transformer"
               THEN /\ pc' = "streaming"
                    /\ UNCHANGED cbCalls
               ELSE /\ cbCalls' = Append(cbCalls, CbSuccess(rp, ra))
                    /\ pc' = "done"

(***************************************************************************)
(* helperAddBuffer(next), called with the buffer out.                      *)
(***************************************************************************)
HelperAddBuffer(next, out, rp, ra) ==
    IF ~testMode /\ local.client = "null"
    THEN \* throw new Error("No db connection to elastic")
         /\ thrown' = Append(thrown, "No db connection to elastic")
         /\ pc' = "crashed"
         /\ output' = out
         /\ UNCHANGED <<store, hookCalls, cbCalls>>
    ELSE IF client = "stub"
    THEN \* the stub answers within the call: fn(null, null)
         /\ bulkCalls' = Append(bulkCalls, out)
         /\ answers' = Append(answers, NoErr)
         /\ UNCHANGED outstanding
         /\ BulkCallback(NoErr, next, out, rp, ra)
    ELSE \* the store answers later
         /\ bulkCalls' = Append(bulkCalls, out)
         /\ outstanding' = Append(outstanding, [body |-> out, next |-> next])
         /\ output' = out
         /\ pc' = IF next = "transformer" THEN "committing" ELSE "finalCommit"
         /\ UNCHANGED <<answers, hookCalls, cbCalls, thrown>>

(***************************************************************************)
(* The configuration setters.  Strings are sequences of characters; the    *)
(* default names 'geonames' and 'geoname' are taken as one character each. *)
(***************************************************************************)
PathChars == {"i", "t", "/"}

\* the elasticPath arguments tried
ElasticPathArgs == SeqsUpTo(PathChars, MaxPathLen)

\* the arguments given to setElasticPath, with what typeof gives for them:
\* the strings above and null
ElasticPathParams ==
    {[type |-> "string", value |-> v] : v \in ElasticPathArgs} \cup
    {[type |-> "object", value |-> <<>>]}

\* the arguments given to setDataPath: two paths, null and a number
DataPathParams ==
    {[type |-> "string", value |-> "tmp"], [type |-> "string", value |-> "data"],
     [type |-> "object", value |-> "null"], [type |-> "number", value |-> "1"]}

\* the arguments given to setElasticClient: a client, null, the empty string
\* and undefined
ClientParams ==
    {[type |-> "object", value |-> "configured"], [type |-> "object", value |-> "null"],
     [type |-> "string", value |-> ""], [type |-> "undefined", value |-> "undefined"]}

NoConfigCall == [op |-> "none", type |-> "undefined", arg |-> <<>>, threw |-> FALSE]

\* String.prototype.split(sep)
RECURSIVE Split(_, _)
Split(str, sep) ==
    IF \A k \in 1..Len(str) : str[k] # sep
    THEN <<str>>
    ELSE LET first == CHOOSE k \in 1..Len(str) :
                          str[k] = sep /\ \A j \in 1..(k - 1) : str[j] # sep
         IN  <<SubSeq(str, 1, first - 1)>> \o Split(SubSeq(str, first + 1, Len(str)), sep)

\* api.setElasticPath(pathParam); the module is configured before the
\* methods that use the store are called
SetElasticPath ==
    /\ pc = "idle"
    /\ \E param \in ElasticPathParams :
        LET pathParam == param.value
            elasticPath == Split(pathParam, "/")
            throws == \/ param.type # "string"
                      \/ Len(elasticPath) # 2
                      \/ Len(elasticPath[1]) < 1
                      \/ Len(elasticPath[2]) < 1
        IN  /\ configCall' = [op |-> "setElasticPath", type |-> param.type,
                              arg |-> pathParam, threw |-> throws]
            /\ local' = IF throws
                        THEN local
                        ELSE [local EXCEPT !.elasticIndex = elasticPath[1],
                                           !.elasticPath = elasticPath[2]]
            /\ UNCHANGED <<downloader, lister, orchestrator, countryCode, countryCodeType, options, file,
                           pc, runLocals,
                           counters, output, stream, store, hookCalls, cbCalls, thrown>>

\* api.setDataPath(pathParam)
SetDataPath ==
    /\ pc = "idle"
    /\ \E param \in DataPathParams :
        LET throws == param.type # "string"
        IN  /\ configCall' = [op |-> "setDataPath", type |-> param.type,
                              arg |-> <<param.value>>, threw |-> throws]
            /\ local' = IF throws THEN local ELSE [local EXCEPT !.dataPath = param.value]
    /\ UNCHANGED <<downloader, lister, orchestrator, countryCode, countryCodeType, options, file,
                   pc, runLocals, counters, output, stream, store, hookCalls, cbCalls, thrown>>

\* api.setElasticClient(dbClient)
SetElasticClient ==
    /\ pc = "idle"
    /\ \E param \in ClientParams :
        LET throws == param.type # "object"
        IN  /\ configCall' = [op |-> "setElasticClient", type |-> param.type,
                              arg |-> <<param.value>>, threw |-> throws]
            /\ local' = IF throws THEN local ELSE [local EXCEPT !.client = param.value]
    /\ UNCHANGED <<downloader, lister, orchestrator, countryCode, countryCodeType, options, file,
                   pc, runLocals, counters, output, stream, store, hookCalls, cbCalls, thrown>>

(***************************************************************************)
(* api.config(data): the keys of data are visited in the order they were   *)
(* written, and each is handed to its setter.                              *)
(***************************************************************************)
\* the elasticPath values given to config: a well-formed path, one without
\* separator and null
ConfigPathParams ==
    {[type |-> "string", value |-> <<"i", "/", "t">>],
     [type |-> "string", value |-> <<"i", "t">>],
     [type |-> "object", value |-> <<>>]}

\* a key of data with its value, whose typeof is type: arg is the string of
\* an elasticPath, and a sequence holding the value of another key; 'haha'
\* is a key config does not know
ConfigEntries ==
    {[key |-> "elasticPath", type |-> p.type, arg |-> p.value] : p \in ConfigPathParams} \cup
    {[key |-> "elasticClient", type |-> p.type, arg |-> <<p.value>>] : p \in ClientParams} \cup
    {[key |-> "dataPath", type |-> p.type, arg |-> <<p.value>>] : p \in DataPathParams} \cup
    {[key |-> "haha", type |-> "string", arg |-> <<"">>]}

\* the objects given to config: no key twice
ConfigData ==
    {data \in SeqsUpTo(ConfigEntries, MaxConfigKeys) :
        \A i, j \in 1..Len(data) : i # j => data[i].key # data[j].key}

\* the case of the switch for this key throws
ConfigKeyThrows(entry) ==
    CASE entry.key = "elasticPath" ->
            \/ entry.type # "string"
            \/ Len(Split(entry.arg, "/")) # 2
            \/ Len(Split(entry.arg, "/")[1]) < 1
            \/ Len(Split(entry.arg, "/")[2]) < 1
      [] entry.key = "elasticClient" -> entry.type # "object"
      [] entry.key = "dataPath" -> entry.type # "string"
      [] OTHER -> TRUE

\* the configuration after the case of the switch for this key
ConfigKeyApplied(loc, entry) ==
    CASE entry.key = "elasticPath" ->
            [loc EXCEPT !.elasticIndex = Split(entry.arg, "/")[1],
                        !.elasticPath = Split(entry.arg, "/")[2]]
      [] entry.key = "elasticClient" -> [loc EXCEPT !.client = entry.arg[1]]
      [] entry.key = "dataPath" -> [loc EXCEPT !.dataPath = entry.arg[1]]
      [] OTHER -> loc

\* for (var key in data), from the i-th key on: the configuration it leaves
\* and whether it threw
RECURSIVE ConfigLoop(_, _, _)
ConfigLoop(loc, data, i) ==
    IF i > Len(data)
    THEN [local |-> loc, threw |-> FALSE]
    ELSE IF ConfigKeyThrows(data[i])
         THEN [local |-> loc, threw |-> TRUE]
         ELSE ConfigLoop(ConfigKeyApplied(loc, data[i]), data, i + 1)

\* api.config(data)
Config ==
    /\ pc = "idle"
    /\ \E data \in ConfigData :
        LET left == ConfigLoop(local, data, 1)
        IN  /\ configCall' = [op |-> "config", type |-> "object",
                              arg |-> data, threw |-> left.threw]
            /\ local' = left.local
    /\ UNCHANGED <<downloader, lister, orchestrator, countryCode, countryCodeType, options, file,
                   pc, runLocals, counters, output, stream, store, hookCalls, cbCalls, thrown>>

\* no addFileToElastic call has been made
RunIdle ==
    /\ pc = "idle"
    /\ testMode = FALSE
    /\ client = "null"
    /\ bufferRecords = 0
    /\ inputPath = <<"", <<>> >>
    /\ recordsProcessed = 0
    /\ recordsAdded = 0
    /\ output = <<>>
    /\ inputState = "closed"
    /\ parsed = 0
    /\ queue = <<>>
    /\ bulkCalls = <<>>
    /\ outstanding = <<>>
    /\ answers = <<>>
    /\ hookCalls = <<>>
    /\ cbCalls = <<>>
    /\ thrown = <<>>

\* no downloadGeoNameCountryFiles call has been made
DownloaderIdle ==
    /\ dlPc = "idle"
    /\ downloadsLeft = <<>>
    /\ downloadQueue = <<>>
    /\ filesProcessed = 0
    /\ hasErrors = FALSE
    /\ transfers = <<>>
    /\ preCalls = <<>>
    /\ postCalls = <<>>
    /\ dlCbCalls = <<>>

\* the downloader is not used
NoDownload ==
    /\ countries = <<>>
    /\ dlOptions = [parallelDownloads |-> 0, preDownload |-> FALSE, postDownload |-> FALSE]
    /\ DownloaderIdle

\* neither getGeoNameCountries nor getCountries has been called
ListerIdle ==
    /\ gnPc = "idle"
    /\ gnRead = 0
    /\ gnCountries = <<>>
    /\ gnCbCalls = <<>>
    /\ gcCbCalls = <<>>
    /\ gnThrown = <<>>

\* the country list is not used
NoList ==
    /\ gnArgs = [method |-> "none", allColoumns |-> FALSE]
    /\ refFile = <<>>
    /\ ListerIdle

\* _add has not been called
NoAdd ==
    /\ addCountries = <<>>
    /\ addPc = "idle"
    /\ addIndex = 0
    /\ allProcessed = 0
    /\ allAdded = 0
    /\ db = "none"
    /\ addHandled = 0
    /\ addRuns = <<>>
    /\ addLog = <<>>

(***************************************************************************)
(* Initial state: the module is configured, the call has not been made.    *)
(***************************************************************************)
Init ==
    /\ local \in {[client |-> c, dataPath |-> "tmp",
                   elasticIndex |-> <<"geonames">>, elasticType |-> <<"geoname">>,
                   elasticPath |-> <<"undefined">>] :
                  c \in {"null", "configured"}}
    /\ configCall = NoConfigCall
    /\ \E arg \in CountryCodeArgs :
         /\ countryCode = arg.value
         /\ countryCodeType = arg.type
    /\ options \in [bufferRecords : BufferRecordsOptions,
                    classFilters : ClassFilterOptions,
                    bufferAdded : BOOLEAN]
    /\ file \in Files
    /\ RunIdle
    /\ NoDownload
    /\ NoAdd
    /\ NoList

(***************************************************************************)
(* api.addFileToElastic(countryCode, options, cb): the synchronous part.   *)
(* AddFileToElasticCall gives the run it leaves behind: the locals of the  *)
(* call and the invocations of cb made before it returns.                  *)
(***************************************************************************)
\* variant: test mode assigns the fixture path and the stub to the module
LocalAfterCallTestModeWrites(loc, code) ==
    IF code = <<"0", "0">>
    THEN [loc EXCEPT !.dataPath = "./test/data/", !.client = "stub"]
    ELSE loc

\* the module configuration as a call leaves it: dataPath and client are
\* copied into variables of the call, and test mode assigns to the copies
LocalAfterCall(loc, code) == loc

AddFileToElasticCall(loc, code, type, opts) ==
    LET test == (code = <<"0", "0">>)
    IN  IF InvalidCountryCode(code, type)
        THEN [testMode |-> test,
              cbCalls |-> <<CbErrorNaming("InvalidCountryCode", <<code>>)>>,
              pc |-> "invalid",
              client |-> "null",
              bufferRecords |-> 0,
              inputPath |-> <<"", <<>> >>,
              inputState |-> "closed"]
        ELSE [testMode |-> test,
              cbCalls |-> <<>>,
              pc |-> "streaming",
              client |-> IF test THEN "stub" ELSE loc.client,
              bufferRecords |-> DoubledThreshold(BufferRecordsOption(opts)),
              inputPath |-> IF test
                            THEN <<"./test/data/", <<"N", "U">> >>
                            ELSE <<loc.dataPath, ToLocaleUpperCase(code)>>,
              inputState |-> "open"]

AddFileToElastic ==
    /\ pc = "idle"
    /\ LET run == AddFileToElasticCall(local, countryCode, countryCodeType, options)
       IN  /\ testMode' = run.testMode
           /\ cbCalls' = cbCalls \o run.cbCalls
           /\ pc' = run.pc
           /\ client' = run.client
           /\ bufferRecords' = run.bufferRecords
           /\ inputPath' = run.inputPath
           /\ inputState' = run.inputState
    /\ local' = LocalAfterCall(local, countryCode)
    /\ UNCHANGED <<configCall, countryCode, countryCodeType, options, file>>
    /\ UNCHANGED <<downloader, lister, orchestrator, counters, output, parsed, queue, store,
                   hookCalls, thrown>>

(***************************************************************************)
(* The read stream and the parser.                                         *)
(***************************************************************************)
\* input.on('error'): ENOENT when the datafile is missing, any other error
\* while the file is being read
InputError ==
    /\ inputState = "open"
    /\ pc # "crashed"
    /\ inputState' = "failed"
    /\ cbCalls' = Append(cbCalls,
                    IF ~FileExists(inputPath)
                    THEN CbErrorNaming("MissingDatafile", <<inputPath[2], inputPath>>)
                    ELSE CbError("InputError", FALSE, FALSE))
    /\ UNCHANGED <<inputs, downloader, lister, orchestrator, pc, runLocals, counters, output, parsed, queue, store,
                   hookCalls, thrown>>

\* the parser hands one more line to the transformer's queue
InputRead ==
    /\ inputState = "open"
    /\ pc # "crashed"
    /\ FileExists(inputPath)
    /\ parsed < Len(file)
    /\ Len(queue) < MaxQueue
    /\ parsed' = parsed + 1
    /\ queue' = Append(queue, file[parsed + 1])
    /\ UNCHANGED <<inputs, downloader, lister, orchestrator, pc, runLocals, counters, output, inputState, store,
                   hookCalls, cbCalls, thrown>>

\* the file is read to its end: the pipe ends the parser and the transformer
InputEnd ==
    /\ inputState = "open"
    /\ pc # "crashed"
    /\ FileExists(inputPath)
    /\ parsed = Len(file)
    /\ inputState' = "ended"
    /\ UNCHANGED <<inputs, downloader, lister, orchestrator, pc, runLocals, counters, output, parsed, queue, store,
                   hookCalls, cbCalls, thrown>>

(***************************************************************************)
(* The transformer's handler, run for the next record of the queue.        *)
(***************************************************************************)
Transform ==
    /\ TransformerReady
    /\ queue # <<>>
    /\ LET record == Head(queue)
           out == output \o <<Directive(record), LineOutput(record)>>
       IN  /\ queue' = Tail(queue)
           /\ recordsProcessed' = recordsProcessed + 1
           /\ IF IsFiltered(record, options.classFilters)
              THEN UNCHANGED <<recordsAdded, output, pc, store, hookCalls, cbCalls, thrown>>
              ELSE /\ recordsAdded' = recordsAdded + 1
                   /\ IF Len(out) = bufferRecords
                      THEN HelperAddBuffer("transformer", out,
                                           recordsProcessed + 1, recordsAdded + 1)
                      ELSE /\ output' = out
                           /\ UNCHANGED <<pc, store, hookCalls, cbCalls, thrown>>
    /\ UNCHANGED <<inputs, downloader, lister, orchestrator, runLocals, inputState, parsed>>

(***************************************************************************)
(* The store answers the oldest outstanding bulk call.                     *)
(***************************************************************************)
BulkAnswer ==
    /\ outstanding # <<>>
    /\ pc # "crashed"
    /\ \E err \in StoreAnswers :
         /\ answers' = Append(answers, err)
         /\ outstanding' = Tail(outstanding)
         /\ BulkCallback(err, Head(outstanding).next, output,
                         recordsProcessed, recordsAdded)
    /\ UNCHANGED <<inputs, downloader, lister, orchestrator, runLocals, counters, stream, bulkCalls>>

\* variant: the finish handler reports success without the final flush
FinishWithoutFlush ==
    /\ pc = "streaming"
    /\ inputState = "ended"
    /\ queue = <<>>
    /\ cbCalls' = Append(cbCalls, CbSuccess(recordsProcessed, recordsAdded))
    /\ pc' = "done"
    /\ UNCHANGED <<output, store, hookCalls, thrown>>
    /\ UNCHANGED <<inputs, downloader, lister, orchestrator, runLocals, counters, stream>>

(***************************************************************************)
(* transformer.on('finish'): every record written has been handled.        *)
(***************************************************************************)
Finish ==
    /\ pc = "streaming"
    /\ inputState = "ended"
    /\ queue = <<>>
    /\ IF Len(output) # 0
       THEN HelperAddBuffer("finish", output, recordsProcessed, recordsAdded)
       ELSE /\ cbCalls' = Append(cbCalls, CbSuccess(recordsProcessed, recordsAdded))
            /\ pc' = "done"
            /\ UNCHANGED <<output, store, hookCalls, thrown>>
    /\ UNCHANGED <<inputs, downloader, lister, orchestrator, runLocals, counters, stream>>

Next ==
    \/ AddFileToElastic
    \/ InputError
    \/ InputRead
    \/ InputEnd
    \/ Transform
    \/ BulkAnswer
    \/ Finish

Spec == Init /\ [][Next]_vars

(***************************************************************************)
(* A run during which the configuration setters are called: one country    *)
(* with a datafile, a configured client, commits after every record.       *)
(***************************************************************************)
InitConfig ==
    /\ Init
    /\ local.client = "configured"
    /\ countryCode = <<"n", "u">>
    /\ countryCodeType = "string"
    /\ options = [bufferRecords |-> 1,
                  classFilters |-> [present |-> FALSE, list |-> <<>>],
                  bufferAdded |-> FALSE]
    /\ Len(file) <= 2

NextConfig ==
    \/ SetElasticPath
    \/ AddFileToElastic
    \/ InputError
    \/ InputRead
    \/ InputEnd
    \/ Transform
    \/ BulkAnswer
    \/ Finish

SpecConfig == InitConfig /\ [][NextConfig]_vars

(***************************************************************************)
(* downloadGeoNameCountryFiles(countries, options, cb), countries an array *)
(* of strings.                                                             *)
(***************************************************************************)
pipeline == <<inputs, pc, runLocals, counters, output, stream, store, hookCalls,
              cbCalls, thrown>>

\* the entries tried: two country codes, a string of one character and the
\* string of the one character sharp s
DownloadCodes == {<<"n", "u">>, <<"A", "T">>, <<"x">>, <<"sz">>}
CountryLists == SeqsUpTo(DownloadCodes, MaxCountries)

\* the parallelDownloads option: 0 stands for absent (or any falsy value)
ParallelOptions == 0..MaxParallel

\* parallelDownloads = optionsOrCb.parallelDownloads || 2
ParallelDownloadsOption(opts) ==
    IF opts.parallelDownloads # 0 THEN opts.parallelDownloads ELSE DefaultParallelDownloads

\* local.geonameDownloadUrl.replace("%s", countryCode + ".zip")
DownloadUrl(code) ==
    <<"http://download.geonames.org/export/dump/">> \o code \o <<".zip">>

\* Array.prototype.join(sep)
RECURSIVE Join(_, _)
Join(list, sep) ==
    IF Len(list) = 0 THEN <<>>
    ELSE IF Len(list) = 1 THEN list[1]
    ELSE list[1] \o <<sep>> \o Join(Tail(list), sep)

\* values handed to the callback
DlError(kind, names) == [err |-> kind, names |-> names, hasCount |-> FALSE, count |-> 0]
DlSuccess(count) == [err |-> "null", names |-> <<>>, hasCount |-> TRUE, count |-> count]

\* the validation loop: the position of the first entry whose upper-cased
\* form has not two characters, 0 when there is none
FirstInvalid(list) ==
    IF \A i \in 1..Len(list) : Len(ToLocaleUpperCase(list[i])) = 2
    THEN 0
    ELSE CHOOSE i \in 1..Len(list) :
            /\ Len(ToLocaleUpperCase(list[i])) # 2
            /\ \A j \in 1..(i - 1) : Len(ToLocaleUpperCase(list[j])) = 2

\* the urls pushed to downloadsLeft for the first n entries
UrlsOf(list, n) == [i \in 1..n |-> DownloadUrl(ToLocaleUpperCase(list[i]))]

\* variant: the loop runs while i <= parallelDownloads
RECURSIVE TakeWaveOneMore(_, _, _, _)
TakeWaveOneMore(dq, left, i, p) ==
    IF i > p THEN [queue |-> dq, left |-> left]
    ELSE LET item == IF Len(left) = 0 THEN <<"undefined">> ELSE Head(left)
             rest == IF Len(left) = 0 THEN <<>> ELSE Tail(left)
         IN  IF Len(rest) = 0
             THEN [queue |-> Append(dq, item), left |-> rest]
             ELSE TakeWaveOneMore(Append(dq, item), rest, i + 1, p)

\* the loop that fills downloadQueue from downloadsLeft
RECURSIVE TakeWave(_, _, _, _)
TakeWave(dq, left, i, p) ==
    IF i >= p THEN [queue |-> dq, left |-> left]
    ELSE LET item == IF Len(left) = 0 THEN <<"undefined">> ELSE Head(left)
             rest == IF Len(left) = 0 THEN <<>> ELSE Tail(left)
         IN  IF Len(rest) = 0
             THEN [queue |-> Append(dq, item), left |-> rest]
             ELSE TakeWave(Append(dq, item), rest, i + 1, p)

\* variant: the wave counts as done when one of its downloads is
RaceFulfilled(ts, wave) ==
    \E j \in 1..Len(ts) : ts[j].wave = wave /\ ts[j].status = "ok"

\* variant: the handler of a fulfilled Promise.all is never run
PromiseAllNeverFulfilled(ts, wave) == FALSE

\* Promise.all is fulfilled: every download of the wave is
PromiseAllFulfilled(ts, wave) ==
    \A j \in 1..Len(ts) : ts[j].wave = wave => ts[j].status = "ok"

\* Promise.all is rejected by the failure of transfer k: the first of its wave
PromiseAllRejects(ts, k, wave) ==
    /\ ts[k].wave = wave
    /\ \A j \in 1..Len(ts) : ts[j].wave = wave => ts[j].status # "failed"

\* variant: the handler goes on after an error
ThenNeverReturns(errors) == FALSE

\* if (hasErrors) { return; }
ThenReturns(errors) == errors

\* downloadNextFiles(): fill the queue and start its downloads; the queue
\* gets an entry on every call, so helperDownloadsDone is not reached here
DownloadNextFiles(dq, left, ts) ==
    LET taken == TakeWave(dq, left, 0, ParallelDownloadsOption(dlOptions))
        wave == IF Len(ts) = 0 THEN 1 ELSE ts[Len(ts)].wave + 1
    IN  /\ downloadQueue' = taken.queue
        /\ downloadsLeft' = taken.left
        /\ preCalls' = IF dlOptions.preDownload
                       THEN Append(preCalls, Split(Join(taken.queue, ","), ","))
                       ELSE preCalls
        /\ transfers' = ts \o [j \in 1..Len(taken.queue) |->
                                 [url |-> taken.queue[j], wave |-> wave, status |-> "inflight"]]
        /\ dlPc' = "downloading"

\* the .then handler after the hasErrors test
ThenBody(cbs, ts) ==
    /\ postCalls' = IF dlOptions.postDownload
                    THEN Append(postCalls, Split(Join(downloadQueue, ","), ","))
                    ELSE postCalls
    /\ filesProcessed' = filesProcessed + Len(downloadQueue)
    /\ IF Len(downloadsLeft) = 0
       THEN /\ dlCbCalls' = Append(cbs, DlSuccess(filesProcessed + Len(downloadQueue)))
            /\ downloadQueue' = <<>>
            /\ transfers' = ts
            /\ dlPc' = "done"
            /\ UNCHANGED <<downloadsLeft, preCalls>>
       ELSE /\ dlCbCalls' = cbs
            /\ DownloadNextFiles(<<>>, downloadsLeft, ts)

\* variant: the test for an empty list is missing
DownloadGeoNameCountryFilesNoEmptyTest ==
    /\ dlPc = "idle"
    /\ IF FirstInvalid(countries) # 0
       THEN /\ dlCbCalls' = Append(dlCbCalls, DlError("InvalidCountries", <<>>))
            /\ dlPc' = "invalid"
            /\ downloadsLeft' = UrlsOf(countries, FirstInvalid(countries) - 1)
            /\ UNCHANGED <<downloadQueue, filesProcessed, hasErrors, transfers,
                           preCalls, postCalls>>
       ELSE /\ DownloadNextFiles(<<>>, UrlsOf(countries, Len(countries)), transfers)
            /\ UNCHANGED <<filesProcessed, hasErrors, postCalls, dlCbCalls>>
    /\ UNCHANGED <<countries, dlOptions, pipeline, orchestrator, lister>>

\* the call, up to the start of the first wave
DownloadGeoNameCountryFiles ==
    /\ dlPc = "idle"
    /\ IF Len(countries) = 0
       THEN /\ dlCbCalls' = Append(dlCbCalls, DlSuccess(filesProcessed))
            /\ dlPc' = "done"
            /\ UNCHANGED <<downloadsLeft, downloadQueue, filesProcessed, hasErrors,
                           transfers, preCalls, postCalls>>
       ELSE IF FirstInvalid(countries) # 0
       THEN /\ dlCbCalls' = Append(dlCbCalls, DlError("InvalidCountries", <<>>))
            /\ dlPc' = "invalid"
            /\ downloadsLeft' = UrlsOf(countries, FirstInvalid(countries) - 1)
            /\ UNCHANGED <<downloadQueue, filesProcessed, hasErrors, transfers,
                           preCalls, postCalls>>
       ELSE /\ DownloadNextFiles(<<>>, UrlsOf(countries, Len(countries)), transfers)
            /\ UNCHANGED <<filesProcessed, hasErrors, postCalls, dlCbCalls>>
    /\ UNCHANGED <<countries, dlOptions, pipeline, orchestrator, lister>>

\* a download started by the call is fulfilled or rejected, and the handlers
\* chained to the Promise.all of its wave run
DownloadResolve ==
    /\ \E k \in 1..Len(transfers), outcome \in {"ok", "failed"} :
         /\ transfers[k].status = "inflight"
         /\ LET ts == [transfers EXCEPT ![k].status = outcome]
                wave == transfers[Len(transfers)].wave
                error == DlError("DownloadError", Join(downloadQueue, ", "))
            IN  IF outcome = "failed" /\ PromiseAllRejects(transfers, k, wave)
                THEN \* .catch, then .then
                     /\ hasErrors' = TRUE
                     /\ IF ThenReturns(TRUE)
                        THEN /\ dlCbCalls' = Append(dlCbCalls, error)
                             /\ transfers' = ts
                             /\ dlPc' = "failed"
                             /\ UNCHANGED <<downloadsLeft, downloadQueue, filesProcessed,
                                            preCalls, postCalls>>
                        ELSE ThenBody(Append(dlCbCalls, error), ts)
                ELSE IF /\ outcome = "ok"
                        /\ transfers[k].wave = wave
                        /\ PromiseAllFulfilled(ts, wave)
                        /\ ~ThenReturns(hasErrors)
                THEN \* .then
                     /\ ThenBody(dlCbCalls, ts)
                     /\ UNCHANGED hasErrors
                ELSE /\ transfers' = ts
                     /\ UNCHANGED <<dlPc, downloadsLeft, downloadQueue, filesProcessed,
                                    hasErrors, preCalls, postCalls, dlCbCalls>>
    /\ UNCHANGED <<countries, dlOptions, pipeline, orchestrator, lister>>

InitDownload ==
    /\ local = [client |-> "null", dataPath |-> "tmp",
                elasticIndex |-> <<"geonames">>, elasticType |-> <<"geoname">>,
                elasticPath |-> <<"undefined">>]
    /\ configCall = NoConfigCall
    /\ countryCode = <<"n", "u">>
    /\ countryCodeType = "string"
    /\ options = [bufferRecords |-> 0,
                  classFilters |-> [present |-> FALSE, list |-> <<>>],
                  bufferAdded |-> FALSE]
    /\ file = <<>>
    /\ RunIdle
    /\ countries \in CountryLists
    /\ dlOptions \in [parallelDownloads : ParallelOptions,
                      preDownload : BOOLEAN,
                      postDownload : BOOLEAN]
    /\ DownloaderIdle
    /\ NoAdd
    /\ NoList

NextDownload ==
    \/ DownloadGeoNameCountryFiles
    \/ DownloadResolve

SpecDownload == InitDownload /\ [][NextDownload]_vars

\* the calls with a list that is not empty and holds two-character entries
InitDownloadValid ==
    /\ InitDownload
    /\ Len(countries) > 0
    /\ \A i \in 1..Len(countries) : Len(countries[i]) = 2

\* every download started is resolved in the end
SpecDownloadFair ==
    /\ InitDownloadValid
    /\ [][NextDownload]_vars
    /\ WF_vars(DownloadResolve)

(***************************************************************************)
(* The command line tool: _add(countries) and its addCountry(index).  An   *)
(* invocation of the callback given to addFileToElastic is delivered as    *)
(* the step that follows the invocation; nothing else runs in between.     *)
(***************************************************************************)
\* the entries of the list: countries with and without datafile, the test
\* sentinel, a malformed code and the empty string
AddCodes ==
    {[value |-> c, type |-> "string"] :
        c \in {<<"n", "u">>, <<"0", "0">>, <<"e", "s">>, <<"y", "e", "s">>, <<>>}}

AddCountryLists == SeqsUpTo(AddCodes, MaxAddCountries)

\* the datafile found for a country: any file for a path that exists
AddFiles(path) ==
    IF FileExists(path) THEN {f \in Files : Len(f) <= MaxAddLines} ELSE {<<>>}

\* the options the tool passes on: the progress hook, the classes given on
\* the command line (none or one) and the buffer size given (none or 1)
AddOptions ==
    [bufferRecords : {0, 1},
     classFilters : {[present |-> TRUE, list |-> l] : l \in SeqsUpTo(FeatureClasses, 1)},
     bufferAdded : {TRUE}]

\* the elasticPath of the tool's configuration: the default and a path
\* without separator
AddElasticPaths == {<<"geonames", "/", "geoname">>, <<"geonames">>}

\* what db.ping may answer
PingAnswers == {"ok", "error"}

\* a line written to the console
LogLine(kind, code, err, processed, added) ==
    [kind |-> kind, code |-> code, err |-> err, processed |-> processed, added |-> added]

\* if (!countries[index])
NoCountry(index) == index > Len(addCountries) \/ addCountries[index].value = <<>>

\* variant: the counters of the run before are kept
StartRunKeepsCounters(run) ==
    /\ testMode' = run.testMode
    /\ client' = run.client
    /\ bufferRecords' = run.bufferRecords
    /\ inputPath' = run.inputPath
    /\ inputState' = run.inputState
    /\ pc' = run.pc
    /\ cbCalls' = run.cbCalls
    /\ recordsProcessed' = recordsProcessed
    /\ recordsAdded' = recordsAdded
    /\ output' = <<>>
    /\ parsed' = 0
    /\ queue' = <<>>
    /\ bulkCalls' = <<>>
    /\ outstanding' = <<>>
    /\ answers' = <<>>
    /\ hookCalls' = <<>>
    /\ thrown' = <<>>

\* the variables of a run, as a call of addFileToElastic leaves them
StartRun(run) ==
    /\ testMode' = run.testMode
    /\ client' = run.client
    /\ bufferRecords' = run.bufferRecords
    /\ inputPath' = run.inputPath
    /\ inputState' = run.inputState
    /\ pc' = run.pc
    /\ cbCalls' = run.cbCalls
    /\ recordsProcessed' = 0
    /\ recordsAdded' = 0
    /\ output' = <<>>
    /\ parsed' = 0
    /\ queue' = <<>>
    /\ bulkCalls' = <<>>
    /\ outstanding' = <<>>
    /\ answers' = <<>>
    /\ hookCalls' = <<>>
    /\ thrown' = <<>>

\* addCountry(index), called with the module configuration loc, the console
\* output so far, the totals and the callback invocations delivered; the
\* datafile of the country is whatever is on disk
AddCountry(index, loc, log, processed, added, handled) ==
    IF NoCountry(index)
    THEN /\ addLog' = Append(log, LogLine("allDone", <<>>, NullErr, processed, added))
         /\ db' = "closed"
         /\ addPc' = "finished"
         /\ addHandled' = handled
         /\ local' = loc
         /\ UNCHANGED <<addIndex, countryCode, countryCodeType, file, pc, runLocals, counters,
                        output, stream, store, hookCalls, cbCalls, thrown>>
    ELSE /\ addLog' = log
         /\ db' = "open"
         /\ addPc' = "running"
         /\ addIndex' = index
         /\ addHandled' = 0
         /\ countryCode' = addCountries[index].value
         /\ countryCodeType' = addCountries[index].type
         /\ local' = LocalAfterCall(loc, addCountries[index].value)
         /\ LET run == AddFileToElasticCall(loc, addCountries[index].value,
                                            addCountries[index].type, options)
            IN  /\ file' \in AddFiles(run.inputPath)
                /\ StartRun(run)

\* _add(countries): ping, configuration, then addCountry()
Add ==
    /\ addPc = "idle"
    /\ \E ping \in PingAnswers, pathParam \in AddElasticPaths :
         LET withClient == [local EXCEPT !.client = "configured"]
             elasticPath == Split(pathParam, "/")
             throws == \/ Len(elasticPath) # 2
                       \/ Len(elasticPath[1]) < 1
                       \/ Len(elasticPath[2]) < 1
             configured == [withClient EXCEPT !.elasticIndex = elasticPath[1],
                                              !.elasticPath = elasticPath[2]]
         IN  IF ping = "error"
             THEN /\ addLog' = addLog \o
                        <<LogLine("connect", <<>>, NullErr, 0, 0),
                          LogLine("error", <<>>, CbError("PingError", FALSE, FALSE).err, 0, 0)>>
                  /\ db' = "closed"
                  /\ addPc' = "failed"
                  /\ UNCHANGED <<local, configCall, addIndex, addHandled, countryCode,
                                 countryCodeType, file, pc, runLocals, counters, output,
                                 stream, store, hookCalls, cbCalls, thrown>>
             ELSE IF throws
             THEN /\ local' = withClient
                  /\ configCall' = [op |-> "config", type |-> "object", arg |-> pathParam,
                                    threw |-> TRUE]
                  /\ addLog' = Append(addLog,
                        LogLine("error", <<>>, CbError("ConfigError", FALSE, FALSE).err, 0, 0))
                  /\ db' = "closed"
                  /\ addPc' = "failed"
                  /\ UNCHANGED <<addIndex, addHandled, countryCode, countryCodeType, file, pc,
                                 runLocals, counters, output, stream, store, hookCalls,
                                 cbCalls, thrown>>
             ELSE /\ configCall' = [op |-> "config", type |-> "object", arg |-> pathParam,
                                    threw |-> FALSE]
                  /\ AddCountry(1, configured, addLog, 0, 0, addHandled)
    /\ UNCHANGED <<addCountries, allProcessed, allAdded, addRuns, options, downloader, lister>>

\* variant: the callback goes on to the next country whatever it was given
AdvancesAlways(call) == TRUE

\* variant: a country without datafile is skipped
AdvancesPastMissingFile(call) == call.err.kind \in {"null", "MissingDatafile"}

\* the else branch of if (err) in the callback
Advances(call) == call.err.kind = "null"

\* variant: the total is overwritten
AccumulateLast(total, n) == n

\* allProcessed += result.processed, allAdded += result.added
Accumulate(total, n) == total + n

\* the callback addCountry gives to addFileToElastic
AddCallback ==
    /\ addPc = "running"
    /\ addHandled < Len(cbCalls)
    /\ LET call == cbCalls[addHandled + 1]
       IN  IF ~Advances(call)
           THEN /\ addLog' = Append(addLog, LogLine("error", countryCode, call.err, 0, 0))
                /\ addHandled' = addHandled + 1
                /\ UNCHANGED <<local, addPc, addIndex, allProcessed, allAdded, db, addRuns,
                               countryCode, countryCodeType, file, pc, runLocals, counters,
                               output, stream, store, hookCalls, cbCalls, thrown>>
           ELSE /\ allProcessed' = Accumulate(allProcessed, call.result.processed)
                /\ allAdded' = Accumulate(allAdded, call.result.added)
                /\ addRuns' = Append(addRuns, [index |-> addIndex,
                                               country |-> countryCode,
                                               result |-> call.result,
                                               commits |-> Len(bulkCalls),
                                               answered |-> Len(answers)])
                /\ AddCountry(addIndex + 1, local,
                              Append(addLog, LogLine("finished", countryCode, NullErr,
                                                     call.result.processed, call.result.added)),
                              Accumulate(allProcessed, call.result.processed),
                              Accumulate(allAdded, call.result.added),
                              addHandled + 1)
    /\ UNCHANGED <<addCountries, configCall, options, downloader, lister>>

\* every invocation of the callback has been delivered
Delivered == addHandled = Len(cbCalls)

InitAdd ==
    /\ local = [client |-> "null", dataPath |-> "tmp",
                elasticIndex |-> <<"geonames">>, elasticType |-> <<"geoname">>,
                elasticPath |-> <<"undefined">>]
    /\ configCall = NoConfigCall
    /\ countryCode = <<>>
    /\ countryCodeType = "string"
    /\ options \in AddOptions
    /\ file = <<>>
    /\ RunIdle
    /\ NoDownload
    /\ NoList
    /\ addCountries \in AddCountryLists
    /\ addPc = "idle"
    /\ addIndex = 0
    /\ allProcessed = 0
    /\ allAdded = 0
    /\ db = "none"
    /\ addHandled = 0
    /\ addRuns = <<>>
    /\ addLog = <<>>

NextAdd ==
    \/ Add
    \/ AddCallback
    \/ Delivered /\ InputError
    \/ Delivered /\ InputRead
    \/ Delivered /\ InputEnd
    \/ Delivered /\ Transform
    \/ Delivered /\ BulkAnswer
    \/ Delivered /\ Finish

SpecAdd == InitAdd /\ [][NextAdd]_vars

\* the event loop runs whatever is ready: a step that can be taken is taken
SpecAddFair ==
    /\ InitAdd
    /\ [][NextAdd]_vars
    /\ WF_vars(NextAdd)

(***************************************************************************)
(* addFileToElastic called a second time, with the same arguments and the  *)
(* same datafile, once the first run has stopped in whatever way.          *)
(***************************************************************************)
\* the first call has been made and nothing of it is left to happen
RunStopped == pc # "idle" /\ ~ENABLED Next

\* the result the run has handed to cb, if any
ResultOfRun ==
    IF \E j \in 1..Len(cbCalls) : cbCalls[j].result.defined
    THEN cbCalls[CHOOSE j \in 1..Len(cbCalls) : cbCalls[j].result.defined].result
    ELSE NoResult

RunAgain ==
    /\ RunStopped
    /\ addRuns = <<>>
    /\ addRuns' = <<[index |-> 1,
                     country |-> countryCode,
                     result |-> ResultOfRun,
                     commits |-> Len(bulkCalls),
                     answered |-> Len(answers)]>>
    /\ StartRun(AddFileToElasticCall(local, countryCode, countryCodeType, options))
    /\ local' = LocalAfterCall(local, countryCode)
    /\ UNCHANGED <<configCall, countryCode, countryCodeType, options, file>>
    /\ UNCHANGED <<downloader, lister, addCountries, addPc, addIndex, allProcessed, allAdded,
                   db, addHandled, addLog>>

\* the calls tried twice: short datafiles, at most one class filter
InitRerun ==
    /\ Init
    /\ Len(file) <= MaxAddLines
    /\ Len(options.classFilters.list) <= 1

NextRerun ==
    \/ RunAgain
    \/ AddFileToElastic
    \/ InputError
    \/ InputRead
    \/ InputEnd
    \/ Transform
    \/ BulkAnswer
    \/ Finish

SpecRerun == InitRerun /\ [][NextRerun]_vars

(***************************************************************************)
(* getGeoNameCountries(options, cb) and getCountries(cb), which calls it   *)
(* with allColoumns and maps the records it is given.                      *)
(***************************************************************************)
\* the lines a reference file may hold: a comment, the record of a country,
\* and a line the parser rejects; a record is given by its first column
RefLines ==
    {[parses |-> TRUE, first |-> <<"#">>],
     [parses |-> TRUE, first |-> <<"N", "U">>],
     [parses |-> FALSE, first |-> <<>>]}

RefFiles == SeqsUpTo(RefLines, MaxRefLines)

\* the calls tried: getGeoNameCountries with and without allColoumns, and
\* getCountries
ListerArgs ==
    {[method |-> "getGeoNameCountries", allColoumns |-> a] : a \in BOOLEAN} \cup
    {[method |-> "getCountries", allColoumns |-> TRUE]}

\* record[0].startsWith('#')
StartsWithHash(line) == Len(line.first) > 0 /\ line.first[1] = "#"

\* what the transformer pushes: allColoumns ? record : record[0]
Collected(line, allColoumns) == [all |-> allColoumns, first |-> line.first]

\* the item getCountries makes of a record
CountryItem(record) == [country |-> record.first]

GnData(data) == [err |-> "null", hasData |-> TRUE, data |-> data]

\* the call: the streams are set up and the download is started
GetGeoNameCountries ==
    /\ gnPc = "idle"
    /\ gnPc' = "streaming"
    /\ UNCHANGED <<gnArgs, refFile, gnRead, gnCountries, gnCbCalls, gcCbCalls, gnThrown>>
    /\ UNCHANGED <<pipeline, downloader, orchestrator>>

\* the download fails: its stream emits 'error', for which there is no
\* listener
GnDownloadError ==
    /\ gnPc = "streaming"
    /\ gnThrown' = Append(gnThrown, "DownloadError")
    /\ gnPc' = "crashed"
    /\ UNCHANGED <<gnArgs, refFile, gnRead, gnCountries, gnCbCalls, gcCbCalls>>
    /\ UNCHANGED <<pipeline, downloader, orchestrator>>

\* the parser takes the next line: it emits 'error', for which there is no
\* listener, or hands the record to the transformer's handler
GnRecord ==
    /\ gnPc = "streaming"
    /\ gnRead < Len(refFile)
    /\ LET line == refFile[gnRead + 1]
       IN  IF ~line.parses
           THEN /\ gnThrown' = Append(gnThrown, "ParseError")
                /\ gnPc' = "crashed"
                /\ UNCHANGED <<gnRead, gnCountries>>
           ELSE /\ gnRead' = gnRead + 1
                /\ gnCountries' = IF StartsWithHash(line)
                                  THEN gnCountries
                                  ELSE Append(gnCountries, Collected(line, gnArgs.allColoumns))
                /\ UNCHANGED <<gnPc, gnThrown>>
    /\ UNCHANGED <<gnArgs, refFile, gnCbCalls, gcCbCalls>>
    /\ UNCHANGED <<pipeline, downloader, orchestrator>>

\* transformer.on('finish'), after the download has ended: cb(null, countries),
\* and for getCountries the mapping and its cb(null, returnVariable)
GnFinish ==
    /\ gnPc = "streaming"
    /\ gnRead = Len(refFile)
    /\ gnPc' = "done"
    /\ gnCbCalls' = Append(gnCbCalls, GnData(gnCountries))
    /\ gcCbCalls' = IF gnArgs.method = "getCountries"
                    THEN Append(gcCbCalls,
                                GnData([i \in 1..Len(gnCountries) |-> CountryItem(gnCountries[i])]))
                    ELSE gcCbCalls
    /\ UNCHANGED <<gnArgs, refFile, gnRead, gnCountries, gnThrown>>
    /\ UNCHANGED <<pipeline, downloader, orchestrator>>

InitCountries ==
    /\ local = [client |-> "null", dataPath |-> "tmp",
                elasticIndex |-> <<"geonames">>, elasticType |-> <<"geoname">>,
                elasticPath |-> <<"undefined">>]
    /\ configCall = NoConfigCall
    /\ countryCode = <<"n", "u">>
    /\ countryCodeType = "string"
    /\ options = [bufferRecords |-> 0,
                  classFilters |-> [present |-> FALSE, list |-> <<>>],
                  bufferAdded |-> FALSE]
    /\ file = <<>>
    /\ RunIdle
    /\ NoDownload
    /\ NoAdd
    /\ gnArgs \in ListerArgs
    /\ refFile \in RefFiles
    /\ ListerIdle

NextCountries ==
    \/ GetGeoNameCountries
    \/ GnDownloadError
    \/ GnRecord
    \/ GnFinish

SpecCountries == InitCountries /\ [][NextCountries]_vars

(***************************************************************************)
(* The configuration setters called one after another, before any run.     *)
(***************************************************************************)
InitSetters ==
    /\ Init
    /\ countryCode = <<"n", "u">>
    /\ countryCodeType = "string"
    /\ options = [bufferRecords |-> 0,
                  classFilters |-> [present |-> FALSE, list |-> <<>>],
                  bufferAdded |-> FALSE]
    /\ file = <<>>

NextSetters ==
    \/ SetDataPath
    \/ SetElasticPath
    \/ SetElasticClient

SpecSetters == InitSetters /\ [][NextSetters]_vars

\* calls of config on the module
NextConfigure ==
    \/ Config

SpecConfigure == InitSetters /\ [][NextConfigure]_vars

TypeOK ==
    /\ pc \in {"idle", "invalid", "streaming", "committing", "finalCommit",
               "halted", "crashed", "done"}
    /\ inputState \in {"closed", "open", "ended", "failed"}
    /\ recordsProcessed \in 0..MaxLines
    /\ recordsAdded \in 0..MaxLines

(***************************************************************************)
(* Vocabulary of the properties.                                           *)
(***************************************************************************)
Last(s) == s[Len(s)]

\* the batches the store has received, and the buffer
Batches == {bulkCalls[j] : j \in 1..Len(bulkCalls)}

\* N: the bufferRecords in force, in records
N == IF options.bufferRecords # 0 THEN options.bufferRecords ELSE DefaultBufferRecords

\* the feature class of line i equals at least one filter value
MatchesSomeFilter(i) ==
    \E v \in {options.classFilters.list[j] : j \in 1..Len(options.classFilters.list)} :
        file[i].featureClass = v

NoFilter == ~options.classFilters.present \/ options.classFilters.list = <<>>

\* the lines that pass the class filter, and their number K
KeptLines == {i \in 1..Len(file) : NoFilter \/ MatchesSomeFilter(i)}
K == Cardinality(KeptLines)

SuccessCalls == {j \in 1..Len(cbCalls) : cbCalls[j].err.kind = "null"}

\* the store's error says that the index or the type is missing
SchemaAnswer(a) == a.isErr /\ a.hasMessage /\ (a.isIndex \/ a.isType)
\* any other error of the store
OtherErrorAnswer(a) == a.isErr /\ ~(a.hasMessage /\ (a.isIndex \/ a.isType))

(***************************************************************************)
(* C1: while a bulk commit is outstanding the pipeline processes no record *)
(* and appends nothing to the buffer, and no second commit is issued       *)
(* before the first is answered: at most one commit is outstanding.        *)
(***************************************************************************)
C1_OneCommitOutstanding ==
    /\ [](Len(outstanding) <= 1)
    /\ [][outstanding # <<>> =>
            /\ recordsProcessed' = recordsProcessed
            /\ recordsAdded' = recordsAdded
            /\ Len(output') <= Len(output)
            /\ bulkCalls' = bulkCalls]_vars

\* a commit is outstanding while a parsed record waits for the transformer
C1_Witness == outstanding # <<>> /\ queue # <<>> /\ pc = "committing"

(***************************************************************************)
(* C2: every batch passed to the store, and the buffer between record      *)
(* steps, has even length, and the entry at 2k is an index directive whose *)
(* _id is the geonameId of the document at 2k+1, both of one source line.  *)
(***************************************************************************)
PairedBatch(b) ==
    /\ Len(b) % 2 = 0
    /\ \A k \in 0..((Len(b) \div 2) - 1) :
         /\ DOMAIN b[2 * k + 1] = {"index"}
         /\ "geonameId" \in DOMAIN b[2 * k + 2]
         /\ b[2 * k + 1].index._id = b[2 * k + 2].geonameId
         /\ \E i \in 1..Len(file) :
              /\ file[i].geonameId = b[2 * k + 1].index._id
              /\ file[i].featureClass = b[2 * k + 2].featureClass

C2_PairedEntries == \A b \in Batches \cup {output} : PairedBatch(b)

\* a batch of two records has reached the store
C2_Witness == \E j \in 1..Len(bulkCalls) : Len(bulkCalls[j]) >= 4

C4_BufferBounded ==
    /\ [](Len(output) <= 2 * N)
    /\ [][(Len(answers') = Len(answers) + 1 /\ ~Last(answers').isErr) => output' = <<>>]_vars
    /\ [][Len(output') > Len(output) => Len(output) < 2 * N]_vars

\* records are buffered again after an acknowledged commit
C4_Witness == answers # <<>> /\ ~answers[1].isErr /\ output # <<>> /\ Len(output) = 2 * N

(***************************************************************************)
(* C5: the success callback is invoked only when the record stream has     *)
(* ended, the buffer is empty and every commit issued has been             *)
(* acknowledged.                                                           *)
(***************************************************************************)
C5_SuccessAfterFlush ==
    SuccessCalls # {} =>
        /\ inputState = "ended"
        /\ parsed = Len(file)
        /\ queue = <<>>
        /\ output = <<>>
        /\ outstanding = <<>>
        /\ Len(answers) = Len(bulkCalls)
        /\ \A j \in 1..Len(answers) : ~answers[j].isErr

\* success after a final flush of a buffer that was not full
C5_Witness ==
    /\ SuccessCalls # {}
    /\ bulkCalls # <<>>
    /\ Len(Last(bulkCalls)) < 2 * N
    /\ client = "configured"

(***************************************************************************)
(* C6: recordsAdded <= recordsProcessed always, neither counter ever       *)
(* decreases, and without class filter (absent or empty list) the result   *)
(* has processed = added = the number of lines parsed from the file.       *)
(***************************************************************************)
C6_Counters ==
    /\ [](recordsAdded <= recordsProcessed)
    /\ [][recordsProcessed' >= recordsProcessed /\ recordsAdded' >= recordsAdded]_vars
    /\ [](\A j \in SuccessCalls :
            NoFilter => /\ cbCalls[j].result.processed = parsed
                        /\ cbCalls[j].result.added = parsed
                        /\ parsed = Len(file))

\* a run with an empty filter list has succeeded on a file of several lines
C6_Witness ==
    /\ SuccessCalls # {}
    /\ options.classFilters.present
    /\ options.classFilters.list = <<>>
    /\ Len(file) >= 2

(***************************************************************************)
(* C7: with a non-empty classFilters list a successful run reports         *)
(* processed = all parsed lines and added = the lines whose feature class  *)
(* equals some filter value; a line matching none of them has no entry in  *)
(* the buffer or in any commit.                                            *)
(***************************************************************************)
C7_FilterCounts ==
    (options.classFilters.present /\ options.classFilters.list # <<>>) =>
        /\ \A j \in SuccessCalls :
             /\ cbCalls[j].result.processed = Len(file)
             /\ cbCalls[j].result.added =
                    Cardinality({i \in 1..Len(file) : MatchesSomeFilter(i)})
        /\ \A b \in Batches \cup {output} : \A e \in 1..Len(b) :
             /\ "geonameId" \in DOMAIN b[e] => MatchesSomeFilter(b[e].geonameId)
             /\ "index" \in DOMAIN b[e] => MatchesSomeFilter(b[e].index._id)

\* a filtered run has succeeded that kept some lines and skipped others
C7_Witness ==
    /\ SuccessCalls # {}
    /\ Len(options.classFilters.list) = 2
    /\ 0 < recordsAdded
    /\ recordsAdded < recordsProcessed

(***************************************************************************)
(* C8: the bufferAdded hook is invoked once per bulk commit, when the      *)
(* store has answered it, with the value of recordsProcessed at that       *)
(* moment (filtered lines included); the values never decrease.            *)
(***************************************************************************)
C8_HookPerCommit ==
    /\ [](options.bufferAdded => Len(hookCalls) = Len(answers))
    /\ [](\A i, j \in 1..Len(hookCalls) : i <= j => hookCalls[i] <= hookCalls[j])
    /\ [][hookCalls' # hookCalls =>
            /\ Len(answers') = Len(answers) + 1
            /\ hookCalls' = Append(hookCalls, recordsProcessed')]_vars

\* two commits were answered in a run in which some line was filtered out
C8_Witness ==
    /\ options.bufferAdded
    /\ Len(hookCalls) >= 2
    /\ hookCalls[1] > N

(***************************************************************************)
(* C9: when the store rejects a commit because the index or the type is    *)
(* missing, the callback gets a schema-missing error that tells which of   *)
(* the two is absent.                                                      *)
(***************************************************************************)
C9_SchemaMissingDelivered ==
    \A j \in 1..Len(answers) :
        SchemaAnswer(answers[j]) =>
            \E c \in 1..Len(cbCalls) :
                /\ cbCalls[c].err.kind = "SchemaMissing"
                /\ cbCalls[c].err.isIndex = answers[j].isIndex
                /\ cbCalls[c].err.isType = answers[j].isType

(***************************************************************************)
(* C10: when the store answers a commit with an error that does not tell   *)
(* of a missing index or type, the error reaches the callback, and from    *)
(* then on no record is processed, no commit is issued (the failed one is  *)
(* not retried) and the success callback is never invoked.                 *)
(***************************************************************************)
StoreFailed == \E j \in 1..Len(answers) : OtherErrorAnswer(answers[j])

C10_HaltOnStoreError ==
    /\ [](StoreFailed =>
            /\ OtherErrorAnswer(Last(answers))
            /\ \A j \in 1..(Len(answers) - 1) : ~answers[j].isErr
            /\ Len(bulkCalls) = Len(answers)
            /\ outstanding = <<>>
            /\ \E c \in 1..Len(cbCalls) : cbCalls[c].err.kind = "StoreError"
            /\ SuccessCalls = {})
    /\ [][StoreFailed =>
            /\ recordsProcessed' = recordsProcessed
            /\ recordsAdded' = recordsAdded
            /\ output' = output
            /\ bulkCalls' = bulkCalls]_vars

\* an intermediate commit has failed while records were still waiting
C10_Witness == StoreFailed /\ queue # <<>> /\ parsed < Len(file)

(***************************************************************************)
(* C11: every failure of a run, the missing store client at the moment a   *)
(* commit is due included, reaches the caller through the callback; none   *)
(* is thrown out of the pipeline.                                          *)
(***************************************************************************)
C11_FailuresReachCallback ==
    /\ thrown = <<>>
    /\ pc = "crashed" => \E c \in 1..Len(cbCalls) : cbCalls[c].err.kind # "null"

(***************************************************************************)
(* C12: a countryCode that is not a string of exactly two characters gets  *)
(* the callback an error holding the offending value and no result; no     *)
(* file is opened and no commit issued.                                    *)
(***************************************************************************)
MalformedCode == countryCodeType # "string" \/ Len(countryCode) # 2

C12_InvalidCodeRejected ==
    (MalformedCode /\ pc # "idle") =>
        /\ Len(cbCalls) = 1
        /\ cbCalls[1].err.kind = "InvalidCountryCode"
        /\ cbCalls[1].err.names = <<countryCode>>
        /\ ~cbCalls[1].result.defined
        /\ inputState = "closed"
        /\ inputPath = <<"", <<>> >>
        /\ parsed = 0
        /\ bulkCalls = <<>>

\* the call was made with an array of two characters
C12_Witness == pc = "invalid" /\ countryCodeType = "object" /\ Len(countryCode) = 2

(***************************************************************************)
(* C13: for a well-formed code whose datafile does not exist the callback  *)
(* gets a not-found error naming the upper-cased code and the path tried,  *)
(* and no result; no commit is issued.                                     *)
(***************************************************************************)
UpperCased(code) ==
    [i \in 1..Len(code) |->
        IF code[i] = "e" THEN "E" ELSE IF code[i] = "s" THEN "S"
        ELSE IF code[i] = "n" THEN "N" ELSE IF code[i] = "u" THEN "U" ELSE code[i]]

DatafileMissing ==
    /\ ~MalformedCode
    /\ countryCode # <<"0", "0">>
    /\ UpperCased(countryCode) # <<"N", "U">>

C13_MissingDatafile ==
    DatafileMissing =>
        /\ bulkCalls = <<>>
        /\ recordsProcessed = 0
        /\ \A c \in 1..Len(cbCalls) :
             /\ cbCalls[c].err.kind = "MissingDatafile"
             /\ cbCalls[c].err.names =
                    <<UpperCased(countryCode), <<local.dataPath, UpperCased(countryCode)>> >>
             /\ ~cbCalls[c].result.defined
        /\ inputState = "failed" => Len(cbCalls) = 1
        /\ inputState \in {"closed", "open", "failed"}

\* the datafile of a code given in lower case was not found
C13_Witness == DatafileMissing /\ inputState = "failed" /\ countryCode = <<"e", "s">>

(***************************************************************************)
(* C14: after setElasticPath('I/T') has succeeded, every index directive   *)
(* produced from then on carries target index I and target type T.         *)
(***************************************************************************)
PathSet == configCall.op = "setElasticPath" /\ ~configCall.threw

C14_DirectivesFollowPath ==
    [][(PathSet /\ configCall' = configCall /\ Len(output') > Len(output)) =>
          LET directive == output'[Len(output) + 1].index
              parts == Split(configCall.arg, "/")
          IN  /\ directive._index = parts[1]
              /\ directive._type = parts[2]]_vars

(***************************************************************************)
(* Vocabulary of the downloader's properties.                              *)
(***************************************************************************)
\* p: the parallelDownloads in force
P == IF dlOptions.parallelDownloads # 0 THEN dlOptions.parallelDownloads ELSE 2

AllCodesValid == \A i \in 1..Len(countries) : Len(countries[i]) = 2

\* the url of the i-th entry of the list
UrlOfEntry(i) ==
    <<"http://download.geonames.org/export/dump/">> \o UpperCased(countries[i]) \o <<".zip">>

InFlight == {j \in 1..Len(transfers) : transfers[j].status = "inflight"}
WavesStarted == IF transfers = <<>> THEN 0 ELSE transfers[Len(transfers)].wave
WaveUrls(w) == SelectSeq(transfers, LAMBDA t : t.wave = w)
DlSuccessCalls == {c \in 1..Len(dlCbCalls) : dlCbCalls[c].err = "null"}

(***************************************************************************)
(* C15: for n valid codes and parallelDownloads = p the urls are started   *)
(* in input order, each once, the j-th in wave ceil(j/p); when all         *)
(* downloads have succeeded ceil(n/p) waves have run.                      *)
(***************************************************************************)
C15_WavePartition ==
    (AllCodesValid /\ Len(countries) > 0) =>
        /\ Len(transfers) <= Len(countries)
        /\ \A j \in 1..Len(transfers) :
             /\ transfers[j].url = UrlOfEntry(j)
             /\ transfers[j].wave = ((j - 1) \div P) + 1
        /\ dlPc = "done" =>
             /\ Len(transfers) = Len(countries)
             /\ WavesStarted = (Len(countries) + P - 1) \div P

\* five codes with p = 2 have been downloaded in waves of 2, 2 and 1
C15_Witness == dlPc = "done" /\ Len(countries) = 5 /\ P = 2 /\ WavesStarted = 3

(***************************************************************************)
(* C16: no download of a wave starts before every download of the wave     *)
(* before has resolved, and never more than parallelDownloads transfers    *)
(* are in flight.                                                          *)
(***************************************************************************)
C16_WavesSequential ==
    /\ [](Cardinality(InFlight) <= P)
    /\ [](\A i, j \in 1..Len(transfers) :
            (transfers[i].wave < transfers[j].wave) => transfers[i].status = "ok")
    /\ [][Len(transfers') > Len(transfers) =>
            \A j \in 1..Len(transfers) : transfers'[j].status # "inflight"]_vars

\* the second wave is in flight, p downloads at once
C16_Witness == WavesStarted = 2 /\ Cardinality(InFlight) = P /\ P >= 2

(***************************************************************************)
(* C17: when a download of a wave fails the callback gets an error naming  *)
(* the urls of that wave; no later wave is started, postDownload is not    *)
(* called for the failed wave and the callback never gets a count.         *)
(***************************************************************************)
SomeFailed == \E j \in 1..Len(transfers) : transfers[j].status = "failed"

C17_WaveFailure ==
    SomeFailed =>
        /\ \A j \in 1..Len(transfers) :
             transfers[j].status = "failed" => transfers[j].wave = WavesStarted
        /\ Len(dlCbCalls) = 1
        /\ dlCbCalls[1].err = "DownloadError"
        /\ dlCbCalls[1].names =
              Join([j \in 1..Len(WaveUrls(WavesStarted)) |-> WaveUrls(WavesStarted)[j].url], ", ")
        /\ ~dlCbCalls[1].hasCount
        /\ DlSuccessCalls = {}
        /\ Len(postCalls) = IF dlOptions.postDownload THEN WavesStarted - 1 ELSE 0

\* a download of the second wave has failed while urls were still waiting
C17_Witness ==
    /\ SomeFailed
    /\ WavesStarted = 2
    /\ downloadsLeft # <<>>
    /\ dlOptions.postDownload
    /\ InFlight = {}

(***************************************************************************)
(* C18: an entry of the list that has not exactly two characters, wherever *)
(* it stands, gets the callback an error; no download is started and no    *)
(* hook called.                                                            *)
(***************************************************************************)
C18_InvalidListRejected ==
    (~AllCodesValid /\ dlPc # "idle") =>
        /\ Len(dlCbCalls) = 1
        /\ dlCbCalls[1].err = "InvalidCountries"
        /\ ~dlCbCalls[1].hasCount
        /\ transfers = <<>>
        /\ preCalls = <<>>
        /\ postCalls = <<>>

(***************************************************************************)
(* C19: with an empty list the callback is invoked once, without error and *)
(* with the count 0; no download is started and no hook called.            *)
(***************************************************************************)
C19_EmptyList ==
    (countries = <<>> /\ dlPc # "idle") =>
        /\ Len(dlCbCalls) = 1
        /\ dlCbCalls[1].err = "null"
        /\ dlCbCalls[1].hasCount
        /\ dlCbCalls[1].count = 0
        /\ transfers = <<>>
        /\ preCalls = <<>>
        /\ postCalls = <<>>

\* the call was made with an empty list and both hooks
C19_Witness ==
    /\ countries = <<>>
    /\ dlPc = "done"
    /\ dlOptions.preDownload
    /\ dlOptions.postDownload

(***************************************************************************)
(* The command line tool.                                                  *)
(***************************************************************************)
\* the run has come to rest: its input is read to the end, every record is
\* handled, every commit is answered and the run has reported
RunAtRest ==
    /\ pc = "done"
    /\ inputState = "ended"
    /\ queue = <<>>
    /\ outstanding = <<>>
    /\ Len(answers) = Len(bulkCalls)

\* a step in which addCountry starts the pipeline of a country
RunStarts == addIndex' # addIndex

\* C20: the countries are run one after another in list order: the step that
\* starts the pipeline of country k+1 takes country k+1 of the list and is
\* only taken when the pipeline of country k has reported success, once, as
\* the last thing it did, with every one of its commits answered; so the
\* pipeline it leaves behind is at rest and no commit of country k can come
\* after one of country k+1.
C20_OneCountryAtATime ==
    [][RunStarts =>
         /\ addIndex' = addIndex + 1
         /\ addIndex' <= Len(addCountries)
         /\ countryCode' = addCountries[addIndex'].value
         /\ Len(addRuns') = addIndex
         /\ addIndex >= 1 =>
              /\ RunAtRest
              /\ Len(cbCalls) = 1
              /\ cbCalls[1] = CbSuccess(recordsProcessed, recordsAdded)
              /\ addRuns'[addIndex].index = addIndex
              /\ addRuns'[addIndex].answered = addRuns'[addIndex].commits]_vars

\* the second country's pipeline commits after the first country's pipeline
\* has succeeded with a commit of its own
C20_Witness ==
    /\ addIndex = 2
    /\ bulkCalls # <<>>
    /\ Len(addRuns) = 1
    /\ addRuns[1].commits > 0

\* the pipeline of the current country has invoked the callback with an error
RunFailed == \E k \in 1..Len(cbCalls) : cbCalls[k].err.kind # "null"

\* the console lines that report the totals
TotalsLines == {i \in 1..Len(addLog) : addLog[i].kind = "allDone"}

\* C21: an error reported by a country's pipeline is written to the console
\* when the callback is delivered; from then on addCountry starts no pipeline
\* for a later country and the totals are never reported.
C21_StopsOnError ==
    /\ [](\A k \in 1..addHandled :
            cbCalls[k].err.kind # "null" =>
                \E i \in 1..Len(addLog) :
                    /\ addLog[i].kind = "error"
                    /\ addLog[i].code = countryCode
                    /\ addLog[i].err = cbCalls[k].err)
    /\ [](RunFailed => TotalsLines = {})
    /\ [][RunFailed => (addIndex' = addIndex /\ RunFailed')]_vars

\* the first of two countries has no datafile: the error is on the console
\* and the second country is not started
C21_Witness ==
    /\ Len(addCountries) = 2
    /\ addCountries[2].value = <<"n", "u">>
    /\ addIndex = 1
    /\ RunFailed
    /\ Delivered
    /\ cbCalls[1].err.kind = "MissingDatafile"

\* the sum of the processed (added) results of the first n runs left behind
RECURSIVE SumProcessed(_)
SumProcessed(n) == IF n = 0 THEN 0 ELSE SumProcessed(n - 1) + addRuns[n].result.processed

RECURSIVE SumAdded(_)
SumAdded(n) == IF n = 0 THEN 0 ELSE SumAdded(n - 1) + addRuns[n].result.added

\* every country of the list has been indexed successfully
AllIndexed == addPc = "finished" /\ Len(addRuns) = Len(addCountries)

\* C22: when every country of the list has been indexed successfully, the
\* totals are reported once and are the sums of the countries' processed and
\* added results, and the runs left behind are the countries of the list,
\* each once and in order.
C22_TotalsAreSums ==
    AllIndexed =>
        /\ Cardinality(TotalsLines) = 1
        /\ Last(addLog).kind = "allDone"
        /\ Last(addLog).processed = SumProcessed(Len(addRuns))
        /\ Last(addLog).added = SumAdded(Len(addRuns))
        /\ \A k \in 1..Len(addCountries) :
             /\ addRuns[k].index = k
             /\ addRuns[k].country = addCountries[k].value
             /\ addRuns[k].result.defined

\* two countries have been indexed, each with records processed and added
C22_Witness ==
    /\ AllIndexed
    /\ Len(addCountries) = 2
    /\ addRuns[1].result.added > 0
    /\ addRuns[2].result.added > 0
    /\ addRuns[2].result.processed > addRuns[2].result.added

(***************************************************************************)
(* C23: a second run with the same country code, the same options and the  *)
(* same datafile starts its counters at zero and, when both runs hand a    *)
(* result to the callback, hands the same result as the first, whatever    *)
(* the store answered in either run.                                       *)
(***************************************************************************)
C23_SameResultAgain ==
    /\ [][addRuns' # addRuns => (recordsProcessed' = 0 /\ recordsAdded' = 0)]_vars
    /\ [](\A j \in SuccessCalls :
            (Len(addRuns) = 1 /\ addRuns[1].result.defined) =>
                cbCalls[j].result = addRuns[1].result)

\* both runs have succeeded on a file of which the filter kept a part, the
\* first with a commit
C23_Witness ==
    /\ Len(addRuns) = 1
    /\ addRuns[1].result.defined
    /\ addRuns[1].commits >= 1
    /\ SuccessCalls # {}
    /\ recordsAdded > 0
    /\ recordsProcessed > recordsAdded

(***************************************************************************)
(* C24: when the download of the reference file fails or the parser        *)
(* rejects a line, the callback of getGeoNameCountries is invoked with an  *)
(* error, and so is the callback of getCountries when the call came        *)
(* through it.                                                             *)
(***************************************************************************)
C24_ListFailureDelivered ==
    gnThrown # <<>> \/ gnPc = "crashed" =>
        /\ \E k \in 1..Len(gnCbCalls) : gnCbCalls[k].err # "null"
        /\ gnArgs.method = "getCountries" =>
              \E k \in 1..Len(gcCbCalls) : gcCbCalls[k].err # "null"

(***************************************************************************)
(* C25: a setter called with an invalid argument throws and leaves every   *)
(* setting as it was: setDataPath and setElasticPath with a path that is   *)
(* not a string, setElasticPath with a string that is not two non-empty    *)
(* parts around one slash, setElasticClient with a client that is not an   *)
(* object.                                                                 *)
(***************************************************************************)
\* the argument of the last setter call is invalid
InvalidSetterArgument ==
    \/ /\ configCall.op = "setDataPath"
       /\ configCall.type # "string"
    \/ /\ configCall.op = "setElasticPath"
       /\ \/ configCall.type # "string"
          \/ Cardinality({k \in 1..Len(configCall.arg) : configCall.arg[k] = "/"}) # 1
          \/ configCall.arg[1] = "/"
          \/ Last(configCall.arg) = "/"
    \/ /\ configCall.op = "setElasticClient"
       /\ \/ configCall.type # "object"
          \/ configCall.arg = <<"null">>

C25_SettersRejectInvalid ==
    /\ [](InvalidSetterArgument => configCall.threw)
    /\ [][(configCall' # configCall /\ InvalidSetterArgument') => local' = local]_vars
    /\ [][configCall'.threw => local' = local]_vars

(***************************************************************************)
(* C26: no step of a run changes the module configuration, in test mode    *)
(* either, where the fixture path and the stub are used for that run       *)
(* alone; a run with a normal country code reads the configured data path  *)
(* and uses the configured client, also after a run in test mode.          *)
(***************************************************************************)
\* the run of the current country has got past the validation of its code
RunUnderWay == addPc = "running" /\ pc # "invalid"

C26_ConfigurationUntouched ==
    /\ [][addPc = "running" => local' = local]_vars
    /\ [](RunUnderWay =>
            /\ local.client = "configured"
            /\ local.dataPath = "tmp"
            /\ IF testMode
               THEN inputPath[1] = "./test/data/" /\ client = "stub"
               ELSE inputPath[1] = "tmp" /\ client = "configured")

\* a country with a normal code is read after a run in test mode
C26_Witness ==
    /\ addIndex = 2
    /\ addRuns[1].country = <<"0", "0">>
    /\ countryCode = <<"n", "u">>
    /\ parsed > 0

(***************************************************************************)
(* C27: a call of addFileToElastic invokes the callback exactly once,      *)
(* whatever the outcome: never twice, and once by the time nothing of the  *)
(* run is left to happen.                                                  *)
(***************************************************************************)
C27_CallbackExactlyOnce ==
    /\ Len(cbCalls) <= 1
    /\ RunStopped => Len(cbCalls) = 1

(***************************************************************************)
(* C28: on a successful run the batches committed, one after the other in  *)
(* commit order, are the directive and the document of every line the      *)
(* filter kept, once each and in the order of the file.                    *)
(***************************************************************************)
RECURSIVE Concatenated(_)
Concatenated(batches) ==
    IF batches = <<>> THEN <<>> ELSE Head(batches) \o Concatenated(Tail(batches))

\* the kept lines among the first n, in the order of the file
RECURSIVE KeptUpTo(_)
KeptUpTo(n) ==
    IF n = 0 THEN <<>>
    ELSE IF n \in KeptLines THEN Append(KeptUpTo(n - 1), n) ELSE KeptUpTo(n - 1)

C28_EveryKeptRecordOnce ==
    SuccessCalls # {} =>
        LET all == Concatenated(bulkCalls)
            kept == KeptUpTo(Len(file))
        IN  /\ Len(all) = 2 * Len(kept)
            /\ \A m \in 1..Len(kept) :
                 /\ "index" \in DOMAIN all[2 * m - 1]
                 /\ all[2 * m - 1].index._id = file[kept[m]].geonameId
                 /\ "geonameId" \in DOMAIN all[2 * m]
                 /\ all[2 * m].geonameId = file[kept[m]].geonameId

\* a run has succeeded after several commits, the filter having skipped a line
C28_Witness ==
    /\ SuccessCalls # {}
    /\ Len(bulkCalls) >= 2
    /\ K >= 2
    /\ K < Len(file)

(***************************************************************************)
(* C29: for a non-empty list of valid codes, with every download resolved  *)
(* in the end, a call invokes the callback in the end, and never more than *)
(* once: with the number of codes when every download has succeeded,       *)
(* with an error when one has failed.                                      *)
(***************************************************************************)
C29_CallbackInTheEnd ==
    /\ (dlPc # "idle") ~> (Len(dlCbCalls) = 1)
    /\ [](AllCodesValid /\ Len(countries) > 0)
    /\ [](Len(dlCbCalls) <= 1)
    /\ [](\A k \in 1..Len(dlCbCalls) :
            IF dlCbCalls[k].hasCount
            THEN /\ dlCbCalls[k].err = "null"
                 /\ dlCbCalls[k].count = Len(countries)
                 /\ Len(transfers) = Len(countries)
                 /\ \A j \in 1..Len(transfers) : transfers[j].status = "ok"
            ELSE /\ dlCbCalls[k].err # "null"
                 /\ SomeFailed)

\* five codes have been downloaded in three waves and the callback was given
\* their number
C29_Witness ==
    /\ AllCodesValid
    /\ Len(countries) = 5
    /\ P = 2
    /\ Len(dlCbCalls) = 1
    /\ dlCbCalls[1].hasCount
    /\ dlCbCalls[1].count = 5

(***************************************************************************)
(* C30: when the callback is invoked, with a count or with an error, no    *)
(* download started by the call is still in flight.                        *)
(***************************************************************************)
C30_NothingInFlightAtCallback ==
    [][Len(dlCbCalls') > Len(dlCbCalls) => InFlight' = {}]_vars

(***************************************************************************)
(* C31: a call of config that throws, for a key it does not know or for a  *)
(* value its setter rejects, leaves every setting of the configuration as  *)
(* it was before the call.                                                 *)
(***************************************************************************)
C31_ConfigAllOrNothing ==
    [][(configCall'.op = "config" /\ configCall'.threw) => local' = local]_vars

(***************************************************************************)
(* C32: the connection the command line tool opened is closed in the end:  *)
(* it is closed when the totals are reported after the last country, and   *)
(* once the pipeline of a country has reported an error the connection     *)
(* will be closed.                                                         *)
(***************************************************************************)
C32_ConnectionClosedInTheEnd ==
    /\ [](addPc = "finished" => db = "closed")
    /\ (db = "open" /\ RunFailed) ~> (db = "closed")
====
